---- MODULE Spec2Model ----
(***************************************************************************)
(* A model of merlin/analysis/preprocess.py: the Preprocess histogram      *)
(* store and aggregator, and DeconvolutionPreprocess (parameter defaults,  *)
(* the per-fragment analysis loop, the final 16-bit cast of the restored   *)
(* image and the processed-image getters).                                 *)
(*                                                                         *)
(* Floating-point values are exact rationals [num, den].  A histogram is   *)
(* [shape |-> <<rows, cols>>, rows |-> <<bag, ...>>]: each row is the bag   *)
(* of the 0-based column indices, a column's count being its number of     *)
(* copies, so that the 65534 columns need not be enumerated.               *)
(***************************************************************************)
EXTENDS Integers, Sequences, FiniteSets, Bags, TLC

VARIABLES
    build,           \* what the build does with an out-of-range float -> uint16 cast
    seed,            \* selects the images the warp task holds
    pc,              \* per fragment: position of its _run_analysis
    loopBi,          \* per fragment: bi of "for bi, b in enumerate(...)"
    loopI,           \* per fragment: i of "for i in range(len(z positions))"
    pixelHistogram,  \* per buffer: the pixelHistogram local of _run_analysis
    accumulated,     \* per fragment: the (bi, i) pairs added to its buffer so far
    store,           \* dataSet's saved 'pixel_histogram' results, by fov
    writeLog,        \* the bag of the saves so far, each <<writing fragment, key>>
    response,        \* outcome of the last get_pixel_histogram call
    parameters,      \* the parameters handed to DeconvolutionPreprocess(...)
    task,            \* the DeconvolutionPreprocess under construction
    imageResult,     \* outcome of the last get_processed_image call
    imageSetResult   \* outcome of the last get_processed_image_set call

histVars == <<pc, loopBi, loopI, pixelHistogram, accumulated, store, writeLog, response>>
paramVars == <<parameters, task>>
imageVars == <<imageResult, imageSetResult>>
vars == <<build, seed, histVars, paramVars, imageVars>>
histEnv == <<build, seed, paramVars, imageVars>>

----------------------------------------------------------------------------
\* Sizes of the modelled data set.

NumFovs == 2
BitCount == 2
NumZ == 2
Width == 2
Height == 1
MaxSeed == 0
MaxOffset == 2
EstimateDen == 2
MaxSigmaNum == 3
MaxSigmaDen == 2
MaxFilterSize == 4
MaxIterations == 1
MaxCodebookIndex == 1

Uint16Max == 65535

\* An optional argument: None, or the value given
None == <<>>
Some(x) == <<x>>
NoCorrector == "None"

Fovs == 0 .. (NumFovs - 1)
ZIndexes == 0 .. (NumZ - 1)
NumPixels == Width * Height
Correctors == {NoCorrector, "chromaticCorrector"}
Builds == {"wrap", "saturate"}

\* codebook.get_bit_names(): the bits in codebook order, here named 1..BitCount
get_bit_names == [k \in 1 .. BitCount |-> k]
get_bit_count == Len(get_bit_names)

\* dataOrganization.get_data_channel_for_bit(b): the codebook lists the bits in
\* the reverse of the channel order
get_data_channel_for_bit(b) == BitCount - b

----------------------------------------------------------------------------
\* Rationals.

Rat(n, d) == [num |-> n, den |-> d]
Floor(q) == q.num \div q.den
Ceil(q) == -((-q.num) \div q.den)

----------------------------------------------------------------------------
\* The warp task's aligned images, each given by the floating-point estimate
\* that background subtraction and Lucy-Richardson deconvolution produce for
\* it: non-negative rationals at and around 0, 65534, 65535 and 65536.

Anchors == <<0, Uint16Max - 1, Uint16Max, Uint16Max + 1>>
NumEstimates == Len(Anchors) * (MaxOffset + 1)
EstimateAt(k) ==
    Rat(Anchors[(k % Len(Anchors)) + 1] * EstimateDen + (k \div Len(Anchors)),
        EstimateDen)

ImageKey(fov, dataChannel, zIndex, corrector) ==
    ((fov * BitCount + dataChannel) * NumZ + zIndex) * 2
        + (IF corrector = NoCorrector THEN 0 ELSE 1)

\* warpTask.get_aligned_image(fov, dataChannel, zIndex, chromaticCorrector)
get_aligned_image(s, fov, dataChannel, zIndex, corrector) ==
    [key |-> <<fov, dataChannel, zIndex, corrector>>,
     estimate |-> [p \in 1 .. NumPixels |->
        EstimateAt((s + ImageKey(fov, dataChannel, zIndex, corrector) + p)
                       % NumEstimates)]]

\* deconvolve.deconvolve_lucyrichardson(filteredImage, ...) of the high-passed
\* image: the estimate the image stands for
deconvolve_lucyrichardson(inputImage) == inputImage.estimate

----------------------------------------------------------------------------
\* _preprocess_image: the closing .astype(np.uint16).

\* A float in range is truncated.  A float out of range is undefined in the C
\* cast numpy performs: the build either keeps the low 16 bits or saturates.
AsTypeUint16(v, b) ==
    IF Floor(v) <= Uint16Max THEN Floor(v)
    ELSE IF b = "wrap" THEN Floor(v) % (Uint16Max + 1)
    ELSE Uint16Max

preprocess_image(inputImage, b) ==
    LET estimate == deconvolve_lucyrichardson(inputImage)
    IN  [p \in 1 .. Len(estimate) |-> AsTypeUint16(estimate[p], b)]

----------------------------------------------------------------------------
\* numpy helpers used by the histogram code.

\* np.arange(start, stop, step), kept as its description
arange(start, stop, step) == [start |-> start, stop |-> stop, step |-> step]
\* len(np.arange(...))
ArangeLen(a) ==
    IF a.stop <= a.start THEN 0 ELSE -((-(a.stop - a.start)) \div a.step)
\* np.arange(...)[k], k counted from 0
ArangeAt(a, k) == a.start + k * a.step

\* np.zeros(shape)
np_zeros(shape) == [shape |-> shape, rows |-> [r \in 1 .. shape[1] |-> EmptyBag]]

\* The column np.histogram(..., bins=edges) counts the value v in, if any: the
\* bins are [edge k, edge k+1), the last one closed on the right, and a value
\* outside [first edge, last edge] is not counted.
BinOf(v, edges) ==
    LET n == ArangeLen(edges)
        last == ArangeAt(edges, n - 1)
    IN  IF n < 2 \/ v < edges.start \/ v > last THEN {}
        ELSE IF v = last THEN {n - 2}
        ELSE {(v - edges.start) \div edges.step}

\* np.histogram(image, bins=edges)[0], as the bag of the columns counted
RECURSIVE np_histogram(_, _)
np_histogram(image, edges) ==
    IF image = <<>> THEN EmptyBag
    ELSE SetToBag(BinOf(Head(image), edges)) (+) np_histogram(Tail(image), edges)

\* a + b of two arrays of one shape
HistAdd(a, b) ==
    [shape |-> a.shape,
     rows |-> [r \in 1 .. a.shape[1] |-> a.rows[r] (+) b.rows[r]]]

\* pixelHistogram[bi, :] += counts
RowAdd(h, bi, counts) ==
    [h EXCEPT !.rows[bi + 1] = @ (+) counts]

----------------------------------------------------------------------------
\* Preprocess: the saved histograms.

\* dataSet.load_numpy_analysis_result('pixel_histogram', analysisName, fov,
\* 'histograms'): the saved array, or the failure to find it
load_numpy_analysis_result(st, fov) ==
    IF fov \notin DOMAIN st
        THEN [status |-> "HistogramNotFound"]
        ELSE [status |-> "ok", value |-> st[fov]]

\* SumLoop, were a fov with nothing saved passed over instead of failing
RECURSIVE SumLoop_SkipMissing(_, _, _)
SumLoop_SkipMissing(st, fovs, acc) ==
    IF fovs = <<>> THEN [status |-> "ok", value |-> acc]
    ELSE LET h == load_numpy_analysis_result(st, Head(fovs))
         IN  IF h.status # "ok" THEN SumLoop_SkipMissing(st, Tail(fovs), acc)
             ELSE SumLoop_SkipMissing(st, Tail(fovs), HistAdd(acc, h.value))

\* The loop "for f in fovs: pixelHistogram += self.get_pixel_histogram(f)"
RECURSIVE SumLoop(_, _, _)
SumLoop(st, fovs, acc) ==
    IF fovs = <<>> THEN [status |-> "ok", value |-> acc]
    ELSE LET h == load_numpy_analysis_result(st, Head(fovs))
         IN  IF h.status # "ok" THEN h
             ELSE IF h.value.shape # acc.shape
                 THEN [status |-> "ValueError"]
             ELSE SumLoop(st, Tail(fovs), HistAdd(acc, h.value))

\* get_pixel_histogram, were the accumulator started from the first fov's
\* histogram rather than from zeros of its shape
get_pixel_histogram_FirstTwice(st, fov, fovs) ==
    IF fov # None THEN load_numpy_analysis_result(st, fov[1])
    ELSE LET first == load_numpy_analysis_result(st, fovs[1])
         IN  IF first.status # "ok" THEN first
             ELSE SumLoop(st, fovs, first.value)

\* Preprocess.get_pixel_histogram(fov), fovs being dataSet.get_fovs()
get_pixel_histogram(st, fov, fovs) ==
    IF fov # None THEN load_numpy_analysis_result(st, fov[1])
    ELSE LET first == load_numpy_analysis_result(st, fovs[1])
         IN  IF first.status # "ok" THEN first
             ELSE SumLoop(st, fovs, np_zeros(first.value.shape))

----------------------------------------------------------------------------
\* DeconvolutionPreprocess._run_analysis(fragmentIndex), one step at a time.

histogramBins == arange(0, Uint16Max, 1)

\* BufferOf, were the histogram buffer an attribute shared by the runs
BufferOf_Shared(fragmentIndex) == 0

\* The buffer a run accumulates into: a local of the call
BufferOf(fragmentIndex) == fragmentIndex

AllPairs == (0 .. (get_bit_count - 1)) \X ZIndexes

\* The persistence key _save_pixel_histogram writes for a fov
SaveKey(fov) == fov

\* a dict with d[k] = v set
Put(d, k, v) == [x \in DOMAIN d \cup {k} |-> IF x = k THEN v ELSE d[x]]

\* lines 138-143: load the warp task, allocate the zeroed histogram
RunStart(f) ==
    /\ pc[f] = "idle"
    /\ pc' = [pc EXCEPT ![f] = "loop"]
    /\ pixelHistogram' = Put(pixelHistogram, BufferOf(f),
           np_zeros(<<get_bit_count, ArangeLen(histogramBins) - 1>>))
    /\ loopBi' = [loopBi EXCEPT ![f] = 0]
    /\ loopI' = [loopI EXCEPT ![f] = 0]
    /\ UNCHANGED <<accumulated, store, writeLog, response>>
    /\ UNCHANGED histEnv

\* RunImage, were the save inside the loop
RunImage_SavesEachPass(f) ==
    /\ pc[f] = "loop"
    /\ LET b == get_bit_names[loopBi[f] + 1]
           dataChannel == get_data_channel_for_bit(b)
           inputImage == get_aligned_image(seed, f, dataChannel, loopI[f], NoCorrector)
           deconvolvedImage == preprocess_image(inputImage, build)
           last == loopI[f] + 1 = NumZ
           added == RowAdd(pixelHistogram[BufferOf(f)], loopBi[f],
                           np_histogram(deconvolvedImage, histogramBins))
       IN  /\ pixelHistogram' = [pixelHistogram EXCEPT ![BufferOf(f)] = added]
           /\ store' = Put(store, SaveKey(f), added)
           /\ writeLog' = writeLog (+) SetToBag({<<f, SaveKey(f)>>})
           /\ accumulated' = [accumulated EXCEPT ![f] = @ \cup {<<loopBi[f], loopI[f]>>}]
           /\ loopI' = [loopI EXCEPT ![f] = IF last THEN 0 ELSE @ + 1]
           /\ loopBi' = [loopBi EXCEPT ![f] = IF last THEN @ + 1 ELSE @]
           /\ pc' = [pc EXCEPT ![f] =
                  IF last /\ loopBi[f] + 1 = get_bit_count THEN "save" ELSE "loop"]
    /\ UNCHANGED response
    /\ UNCHANGED histEnv

\* lines 148-156: one pass of the inner loop body
RunImage(f) ==
    /\ pc[f] = "loop"
    /\ LET b == get_bit_names[loopBi[f] + 1]
           dataChannel == get_data_channel_for_bit(b)
           inputImage == get_aligned_image(seed, f, dataChannel, loopI[f], NoCorrector)
           deconvolvedImage == preprocess_image(inputImage, build)
           last == loopI[f] + 1 = NumZ
       IN  /\ pixelHistogram' = [pixelHistogram EXCEPT ![BufferOf(f)] =
                  RowAdd(@, loopBi[f], np_histogram(deconvolvedImage, histogramBins))]
           /\ accumulated' = [accumulated EXCEPT ![f] = @ \cup {<<loopBi[f], loopI[f]>>}]
           /\ loopI' = [loopI EXCEPT ![f] = IF last THEN 0 ELSE @ + 1]
           /\ loopBi' = [loopBi EXCEPT ![f] = IF last THEN @ + 1 ELSE @]
           /\ pc' = [pc EXCEPT ![f] =
                  IF last /\ loopBi[f] + 1 = get_bit_count THEN "save" ELSE "loop"]
    /\ UNCHANGED <<store, writeLog, response>>
    /\ UNCHANGED histEnv

\* lines 151-153: get_aligned_image or _preprocess_image raises; nothing
\* catches it, the run ends and its buffer is never saved
RunImageFails(f) ==
    /\ pc[f] = "loop"
    /\ pc' = [pc EXCEPT ![f] = "failed"]
    /\ UNCHANGED <<loopBi, loopI, pixelHistogram, accumulated, store, writeLog, response>>
    /\ UNCHANGED histEnv

\* line 158 and _save_pixel_histogram
RunSave(f) ==
    /\ pc[f] = "save"
    /\ store' = Put(store, SaveKey(f), pixelHistogram[BufferOf(f)])
    /\ writeLog' = writeLog (+) SetToBag({<<f, SaveKey(f)>>})
    /\ pc' = [pc EXCEPT ![f] = "done"]
    /\ UNCHANGED <<loopBi, loopI, pixelHistogram, accumulated, response>>
    /\ UNCHANGED histEnv

\* dataSet.get_fovs(): every fov once, in some order
FovOrders ==
    {q \in [1 .. NumFovs -> Fovs] : \A x \in Fovs : \E k \in DOMAIN q : q[k] = x}

\* A call of get_pixel_histogram(fov); dataSet.get_fovs() lists the fovs in
\* some order, which only the call without a fov reads.  pending records the
\* fovs with nothing saved at the call.
GetPixelHistogram(fov) ==
    /\ \E fovs \in (IF fov = None THEN FovOrders ELSE {[k \in 1 .. NumFovs |-> k - 1]}) :
           response' = [fov |-> fov,
                        pending |-> Fovs \ DOMAIN store,
                        result |-> get_pixel_histogram(store, fov, fovs)]
    /\ UNCHANGED <<pc, loopBi, loopI, pixelHistogram, accumulated, store, writeLog>>
    /\ UNCHANGED histEnv

----------------------------------------------------------------------------
NoResponse == [fov |-> None, pending |-> {}, result |-> [status |-> "none"]]
NoTask == [status |-> "none", parameters |-> <<>>]
NoImage == [status |-> "none"]

HistInit ==
    /\ pc = [f \in Fovs |-> "idle"]
    /\ loopBi = [f \in Fovs |-> 0]
    /\ loopI = [f \in Fovs |-> 0]
    /\ pixelHistogram = <<>>
    /\ accumulated = [f \in Fovs |-> {}]
    /\ store = <<>>
    /\ writeLog = EmptyBag
    /\ response = NoResponse

Init ==
    /\ build \in Builds
    /\ seed \in 0 .. MaxSeed
    /\ HistInit
    /\ parameters = <<>>
    /\ task = NoTask
    /\ imageResult = NoImage
    /\ imageSetResult = NoImage

Next ==
    \/ \E f \in Fovs : RunStart(f)
    \/ \E f \in Fovs : RunImage(f)
    \/ \E f \in Fovs : RunImageFails(f)
    \/ \E f \in Fovs : RunSave(f)
    \/ \E fov \in {Some(f) : f \in Fovs} \cup {None} :
           GetPixelHistogram(fov)

Spec == Init /\ [][Next]_vars

----------------------------------------------------------------------------
\* DeconvolutionPreprocess.__init__: the parameter defaults.

DefaultHighpassSigma == 3
DefaultDeconSigma == 2
DefaultDeconIterations == 20
DefaultCodebookIndex == 0

ParameterKeys ==
    {"highpass_sigma", "decon_sigma", "decon_filter_size", "decon_iterations",
     "codebook_index"}

\* int(2 * np.ceil(2 * sigma) + 1)
FilterSizeFor(sigma) == 2 * Ceil(Rat(2 * sigma.num, sigma.den)) + 1

\* "if key not in self.parameters: self.parameters[key] = value"
SetDefault(d, k, v) == IF k \in DOMAIN d THEN d ELSE Put(d, k, v)

\* Resolve, were the filter size derived from the default sigma instead of
\* the sigma in force
Resolve_FilterFromDefaultSigma(given) ==
    LET p1 == SetDefault(given, "highpass_sigma", Rat(DefaultHighpassSigma, 1))
        p2 == SetDefault(p1, "decon_sigma", Rat(DefaultDeconSigma, 1))
        p3 == SetDefault(p2, "decon_filter_size",
                         FilterSizeFor(Rat(DefaultDeconSigma, 1)))
        p4 == SetDefault(p3, "decon_iterations", DefaultDeconIterations)
    IN  SetDefault(p4, "codebook_index", DefaultCodebookIndex)

\* lines 44-54, in order
Resolve(given) ==
    LET p1 == SetDefault(given, "highpass_sigma", Rat(DefaultHighpassSigma, 1))
        p2 == SetDefault(p1, "decon_sigma", Rat(DefaultDeconSigma, 1))
        p3 == SetDefault(p2, "decon_filter_size", FilterSizeFor(p2["decon_sigma"]))
        p4 == SetDefault(p3, "decon_iterations", DefaultDeconIterations)
    IN  SetDefault(p4, "codebook_index", DefaultCodebookIndex)

\* DeconvolutionPreprocess(dataSet, parameters): the defaults are filled in, and
\* the closing self.parameters['warp_task'] raises KeyError without that key.
\* No value is examined.
Construct ==
    /\ task.status = "none"
    /\ task' = [status |-> IF "warp_task" \in DOMAIN parameters
                              THEN "constructed" ELSE "KeyError",
                parameters |-> Resolve(parameters)]
    /\ UNCHANGED <<parameters, build, seed, histVars, imageVars>>

\* The parameter sets handed in: every key absent or given
Optional(S) == {None} \cup {Some(x) : x \in S}
Sigmas == {Rat(n, d) : n \in (-1) .. MaxSigmaNum, d \in 1 .. MaxSigmaDen}
FilterSizes == (-1) .. MaxFilterSize
Iterations == (0 .. MaxIterations) \cup {DefaultDeconIterations}
CodebookIndexes == 0 .. MaxCodebookIndex
GivenParameters(hs, ds, fs, it, ci, wt) ==
    LET given == [highpass_sigma |-> hs, decon_sigma |-> ds, decon_filter_size |-> fs,
                  decon_iterations |-> it, codebook_index |-> ci, warp_task |-> wt]
    IN  [k \in {x \in DOMAIN given : given[x] # None} |-> given[k][1]]
ParameterSets ==
    {GivenParameters(hs, ds, fs, it, ci, wt) :
        hs \in Optional(Sigmas), ds \in Optional(Sigmas), fs \in Optional(FilterSizes),
        it \in Optional(Iterations), ci \in Optional(CodebookIndexes),
        wt \in Optional({"warp"})}

InitParams ==
    /\ build = "wrap"
    /\ seed = 0
    /\ HistInit
    /\ parameters \in ParameterSets
    /\ task = NoTask
    /\ imageResult = NoImage
    /\ imageSetResult = NoImage

NextParams == Construct

SpecParams == InitParams /\ [][NextParams]_vars

----------------------------------------------------------------------------
\* DeconvolutionPreprocess.get_processed_image and get_processed_image_set.

get_processed_image(s, b, fov, dataChannel, zIndex, corrector) ==
    preprocess_image(get_aligned_image(s, fov, dataChannel, zIndex, corrector), b)

\* get_processed_image_set, were the images listed by data channel instead of
\* by the codebook's bits
get_processed_image_set_ByChannel(s, b, fov, zIndex, corrector) ==
    IF zIndex = None
        THEN [k \in 1 .. get_bit_count |->
                 [z \in 1 .. NumZ |->
                     get_processed_image(s, b, fov, k - 1, z - 1, corrector)]]
        ELSE [k \in 1 .. get_bit_count |->
                 get_processed_image(s, b, fov, k - 1, zIndex[1], corrector)]

get_processed_image_set(s, b, fov, zIndex, corrector) ==
    IF zIndex = None
        THEN [k \in 1 .. Len(get_bit_names) |->
                 [z \in 1 .. NumZ |->
                     get_processed_image(s, b, fov,
                         get_data_channel_for_bit(get_bit_names[k]), z - 1, corrector)]]
        ELSE [k \in 1 .. Len(get_bit_names) |->
                 get_processed_image(s, b, fov,
                     get_data_channel_for_bit(get_bit_names[k]), zIndex[1], corrector)]

GetProcessedImage(fov, dataChannel, zIndex, corrector) ==
    /\ imageResult' =
           [status |-> "ok",
            estimate |-> deconvolve_lucyrichardson(
                get_aligned_image(seed, fov, dataChannel, zIndex, corrector)),
            value |-> get_processed_image(seed, build, fov, dataChannel, zIndex, corrector)]
    /\ UNCHANGED <<imageSetResult, build, seed, histVars, paramVars>>

GetProcessedImageSet(fov, zIndex, corrector) ==
    /\ imageSetResult' =
           [status |-> "ok", fov |-> fov, zIndex |-> zIndex, corrector |-> corrector,
            value |-> get_processed_image_set(seed, build, fov, zIndex, corrector)]
    /\ UNCHANGED <<imageResult, build, seed, histVars, paramVars>>

NextImage ==
    \/ \E fov \in Fovs, ch \in 0 .. (BitCount - 1), z \in ZIndexes, c \in Correctors :
           GetProcessedImage(fov, ch, z, c)
    \/ \E fov \in Fovs, z \in Optional(ZIndexes), c \in Correctors :
           GetProcessedImageSet(fov, z, c)

SpecImage == Init /\ [][NextImage]_vars

----------------------------------------------------------------------------
\* Reference definitions for the properties below.

RECURSIVE SumCopies(_, _, _, _)
\* The count of column c in row r, added up over the saved histograms of S
SumCopies(S, st, r, c) ==
    IF S = {} THEN 0
    ELSE LET f == CHOOSE x \in S : TRUE
         IN  CopiesIn(c, st[f].rows[r]) + SumCopies(S \ {f}, st, r, c)

\* The columns with a count in row r of some saved histogram
ColumnsOf(st, r) == UNION {BagToSet(st[f].rows[r]) : f \in DOMAIN st}

RECURSIVE RowOfRun(_, _, _)
\* Row bi of the histogram a run of fragment f alone builds from the z slices Z
RowOfRun(f, bi, Z) ==
    IF Z = {} THEN EmptyBag
    ELSE LET i == CHOOSE x \in Z : TRUE
             image == get_aligned_image(seed, f,
                          get_data_channel_for_bit(get_bit_names[bi + 1]), i, NoCorrector)
         IN  np_histogram(preprocess_image(image, build), histogramBins)
                 (+) RowOfRun(f, bi, Z \ {i})

\* The histogram a run of fragment f alone holds once the pairs P are added
HistogramOfRun(f, P) ==
    [shape |-> <<get_bit_count, ArangeLen(histogramBins) - 1>>,
     rows |-> [r \in 1 .. get_bit_count |->
                  RowOfRun(f, r - 1, {i \in ZIndexes : <<r - 1, i>> \in P})]]

----------------------------------------------------------------------------
\* C1: after _run_analysis completes, the histogram saved for the fragment has
\* shape (bitCount, 65535).  The code allocates len(histogramBins)-1 = 65534
\* columns, so this is violated.
C1_ShapeIs65535 ==
    \A f \in DOMAIN store : store[f].shape = <<get_bit_count, Uint16Max>>

\* C2: every pixel of every processed image is counted exactly once: each bit's
\* row of a saved histogram sums to (depth slices) x width x height.  A restored
\* pixel of 65535 lies above the last bin edge and is dropped, so this is
\* violated.
C2_EveryPixelCountedOnce ==
    \A f \in DOMAIN store : \A r \in 1 .. get_bit_count :
        BagCardinality(store[f].rows[r]) = NumZ * Width * Height

\* C3: with every fragment saved, get_pixel_histogram() returns the
\* element-wise sum of all fragments' histograms, each counted once, in the
\* shape of a single fragment's histogram, whatever the order of the fovs.
C3_AggregateIsSum ==
    (response.fov = None /\ response.result.status = "ok") =>
        /\ DOMAIN store = Fovs
        /\ \A f \in Fovs : response.result.value.shape = store[f].shape
        /\ \A r \in 1 .. get_bit_count :
              /\ BagToSet(response.result.value.rows[r]) = ColumnsOf(store, r)
              /\ \A c \in ColumnsOf(store, r) :
                    CopiesIn(c, response.result.value.rows[r])
                        = SumCopies(Fovs, store, r, c)

C3_Witness ==
    /\ response.fov = None
    /\ response.result.status = "ok"
    /\ \E f, g \in Fovs : f # g /\ store[f] # store[g]
    /\ \E r \in 1 .. get_bit_count : \E c \in ColumnsOf(store, r) :
           \A f \in Fovs : CopiesIn(c, store[f].rows[r]) > 0

C4_Needed == IF response.fov = None THEN Fovs ELSE {response.fov[1]}

C5_SaveOnceAfterAllPairs ==
    \A f \in Fovs :
        /\ CopiesIn(<<f, SaveKey(f)>>, writeLog) <= 1
        /\ (f \in DOMAIN store \/ CopiesIn(<<f, SaveKey(f)>>, writeLog) > 0)
              => /\ pc[f] = "done"
                 /\ accumulated[f] = AllPairs
                 /\ store[f] = HistogramOfRun(f, AllPairs)
        /\ (pc[f] = "failed") => f \notin DOMAIN store

C5_Witness ==
    \E f, g \in Fovs :
        /\ pc[f] = "done" /\ f \in DOMAIN store
        /\ pc[g] = "failed" /\ accumulated[g] # {} /\ g \notin DOMAIN store

\* C10: under any interleaving each run accumulates into its own buffer and
\* writes only its own fragment's key, once; get_pixel_histogram writes no key;
\* and what is saved is what each run saves when run alone.
C10_RunsAreIsolated ==
    /\ \A e \in BagToSet(writeLog) : e[2] = SaveKey(e[1]) /\ CopiesIn(e, writeLog) = 1
    /\ \A e1, e2 \in BagToSet(writeLog) : e1[2] = e2[2] => e1[1] = e2[1]
    /\ DOMAIN store = {e[2] : e \in BagToSet(writeLog)}
    /\ \A f \in Fovs :
          /\ pc[f] \in {"loop", "save"}
                => pixelHistogram[BufferOf(f)] = HistogramOfRun(f, accumulated[f])
          /\ f \in DOMAIN store => store[f] = HistogramOfRun(f, AllPairs)
          /\ pc[f] = "done" => f \in DOMAIN store

C10_Witness ==
    /\ \E f, g \in Fovs :
          /\ pc[f] = "save"
          /\ pc[g] = "loop" /\ accumulated[g] # {}
          /\ pixelHistogram[BufferOf(f)] # pixelHistogram[BufferOf(g)]
    /\ response.result.status # "none"

C6_Default(k) ==
    CASE k = "highpass_sigma" -> Rat(3, 1)
      [] k = "decon_sigma" -> Rat(2, 1)
      [] k = "decon_iterations" -> 20
      [] k = "codebook_index" -> 0

\* C6: construction from a partial parameter set fills each absent field with
\* its default (3, 2, 20, 0), keeps every supplied value, and derives
\* decon_filter_size as 2*ceil(2*decon_sigma)+1 from the sigma in force only
\* when no filter size is supplied (sigma 3 gives 13, sigma 2 gives 9).
C6_DefaultsFilled ==
    (task.status # "none") =>
        /\ ParameterKeys \subseteq DOMAIN task.parameters
        /\ \A k \in DOMAIN parameters : task.parameters[k] = parameters[k]
        /\ \A k \in ParameterKeys \ {"decon_filter_size"} :
              k \notin DOMAIN parameters => task.parameters[k] = C6_Default(k)
        /\ "decon_filter_size" \notin DOMAIN parameters =>
              LET sigma == task.parameters["decon_sigma"]
              IN  /\ task.parameters["decon_filter_size"]
                         = 2 * Ceil(Rat(2 * sigma.num, sigma.den)) + 1
                  /\ sigma.num = 3 * sigma.den => task.parameters["decon_filter_size"] = 13
                  /\ sigma.num = 2 * sigma.den => task.parameters["decon_filter_size"] = 9

C6_Witness ==
    /\ task.status = "constructed"
    /\ "decon_sigma" \in DOMAIN parameters
    /\ parameters["decon_sigma"] = Rat(3, 1)
    /\ DOMAIN parameters = {"decon_sigma", "warp_task"}
    /\ task.parameters["decon_filter_size"] = 13
    /\ task.parameters["highpass_sigma"] = Rat(3, 1)
    /\ task.parameters["decon_iterations"] = 20

C7_Valid(p) ==
    /\ p["highpass_sigma"].num > 0
    /\ p["decon_sigma"].num > 0
    /\ p["decon_iterations"] > 0
    /\ p["decon_filter_size"] > 0
    /\ p["decon_filter_size"] % 2 = 1

\* C7: construction fails with ConfigurationError when a supplied value is
\* invalid, so that a constructed task has positive sigmas and iterations and
\* an odd, positive filter size.  The constructor examines no value, so this
\* is violated.
C7_InvalidRejected ==
    /\ task.status = "constructed" => C7_Valid(task.parameters)
    /\ (task.status # "none" /\ ~C7_Valid(task.parameters))
           => task.status = "ConfigurationError"

\* C8: the final cast gives min(floor(v), 65535) for a non-negative estimate
\* v.  A value above 65535 is out of the range of the cast, which does not
\* clamp, so this is violated.
C8_CastClamps ==
    (imageResult.status = "ok") =>
        \A p \in DOMAIN imageResult.value :
            LET v == imageResult.estimate[p]
            IN  imageResult.value[p]
                    = (IF Floor(v) > Uint16Max THEN Uint16Max ELSE Floor(v))

C9_Restored(fov, k, z, corrector) ==
    preprocess_image(
        get_aligned_image(seed, fov, get_data_channel_for_bit(get_bit_names[k]),
                          z, corrector),
        build)

\* C9: get_processed_image_set lists the restored images by bit in codebook
\* order, for the slice given or for every slice in increasing order, each
\* being the restoration of the image aligned with the corrector given.
C9_ImageSetByBit ==
    (imageSetResult.status = "ok") =>
        LET r == imageSetResult
        IN  /\ DOMAIN r.value = 1 .. BitCount
            /\ r.zIndex # None =>
                  \A k \in 1 .. BitCount :
                      r.value[k] = C9_Restored(r.fov, k, r.zIndex[1], r.corrector)
            /\ r.zIndex = None =>
                  \A k \in 1 .. BitCount :
                      /\ DOMAIN r.value[k] = 1 .. NumZ
                      /\ \A z \in ZIndexes :
                            r.value[k][z + 1] = C9_Restored(r.fov, k, z, r.corrector)

C9_Witness ==
    /\ imageSetResult.status = "ok"
    /\ imageSetResult.zIndex = None
    /\ imageSetResult.corrector # NoCorrector
    /\ imageSetResult.value[1] # imageSetResult.value[BitCount]
    /\ imageSetResult.value[1][1] # imageSetResult.value[1][NumZ]
    /\ imageSetResult.value # get_processed_image_set(seed, build, imageSetResult.fov,
                                                      None, NoCorrector)

====
